---- MODULE Spec2Model ----
(***************************************************************************)
(* A model of MsgRobot/Wechat.py: the module-level send(), the webhook     *)
(* client WechatGroupRobot and the application client WechatRobot with its *)
(* cached access token.                                                    *)
(*                                                                         *)
(* The program is synchronous and single-threaded: at most one call is in  *)
(* progress.  A call that performs HTTP requests is cut at each request,   *)
(* where the caller blocks until the provider answers; the wall clock      *)
(* (time.time()) may change while it waits and between calls, forwards or  *)
(* backwards.                                                              *)
(*                                                                         *)
(* Python strings are TLA+ strings, except the value stored under          *)
(* "token_time", which is kept as a tuple of one-character strings so that *)
(* str() and float() are computed digit by digit.  Python dicts are        *)
(* functions whose DOMAIN is the set of keys present.  Time is counted in  *)
(* whole seconds.                                                          *)
(***************************************************************************)
EXTENDS Integers, Sequences, FiniteSets, TLC

VARIABLES
    now,        \* the value time.time() returns
    cfg,        \* the heap of configuration dicts the caller created
    _config,    \* WechatRobot: self._config, a reference into cfg (or None)
    _key,       \* WechatGroupRobot: self._key (or None before construction)
    pc,         \* position of the call in progress
    frame,      \* arguments of the call in progress
    http,       \* the requests.post calls issued by the call in progress
    log,        \* logger.critical records written by the call in progress
    result,     \* what the call returned or raised
    seen,       \* history: some earlier refresh of a non-empty token,
                \*          <<instance, token, clock reading>>
    last        \* history: the latest refresh, <<instance, token, clock reading>>

vars == <<now, cfg, _config, _key, pc, frame, http, log, result, seen, last>>

None == "None"

\* ------------------------------------------------------------ bounds
StartTime == 10000
MaxReceivers == 2

Instances == {"w1", "w2"}
Records == {"r1", "r2"}
Users == {"a", "b"}
Messages == {"hi"}
Keys == {"k1", "k2"}

\* The bound of the validity check: "< 7260" in _get_access_token
TokenWindow == 7260

\* Clock readings: the start, one second later, and the last second inside
\* and the first second outside the window counted from the start.
ClockValues == {StartTime, StartTime + 1,
                StartTime + TokenWindow - 1, StartTime + TokenWindow}

\* ------------------------------------------------------------ str / float
Digits == <<"0", "1", "2", "3", "4", "5", "6", "7", "8", "9">>

RECURSIVE str(_)
\* str(time.time()) for a non-negative whole number of seconds
str(n) == IF n < 10 THEN <<Digits[n + 1]>>
          ELSE str(n \div 10) \o <<Digits[(n % 10) + 1]>>

DigitValue(c) == CHOOSE d \in 0..9 : Digits[d + 1] = c

IsDigit(c) == \E d \in 0..9 : Digits[d + 1] = c

RECURSIVE ParseDigits(_)
ParseDigits(s) == IF Len(s) = 0 THEN 0
                  ELSE 10 * ParseDigits(SubSeq(s, 1, Len(s) - 1)) + DigitValue(s[Len(s)])

\* float(s): the number, or ValueError when s is not a numeral
float(s) == IF Len(s) > 0 /\ \A k \in 1..Len(s) : IsDigit(s[k])
            THEN [ok |-> TRUE, value |-> ParseDigits(s)]
            ELSE [ok |-> FALSE, exc |-> "ValueError"]

\* ------------------------------------------------------------ dicts
Put(d, k, v) == [x \in (DOMAIN d) \cup {k} |-> IF x = k THEN v ELSE d[x]]

Restrict(d, S) == [x \in S |-> d[x]]

\* ------------------------------------------------------------ inputs
RequiredKeys == <<"corp_id", "secret_id", "agent_id">>

FullConfig(token, token_time) ==
    [corp_id |-> "corp", secret_id |-> "secret", agent_id |-> "agent",
     token |-> token, token_time |-> token_time]

AllKeys == {"corp_id", "secret_id", "agent_id", "token", "token_time"}

\* Cache fields a caller may have put in the dict: a token with its time,
\* an empty token, a time that is no numeral.
CachedPairs == {<<"t0", str(StartTime)>>, <<"", str(StartTime)>>,
                <<"t0", <<"a", "b", "c">> >>}

\* Complete dicts: the required fields, with every combination of the two
\* cache fields present or absent.
CompleteConfigs ==
    {Restrict(FullConfig(p[1], p[2]), AllKeys \ S) :
        p \in CachedPairs, S \in SUBSET {"token", "token_time"}}

\* Every dict over the five fields, complete or not.
AnyConfigs ==
    {Restrict(FullConfig(p[1], p[2]), S) : p \in CachedPairs, S \in SUBSET AllKeys}

RECURSIVE ListsUpTo(_)
ListsUpTo(n) == IF n = 0 THEN {<< >>}
                ELSE ListsUpTo(n - 1) \cup
                     {Append(l, u) : l \in {x \in ListsUpTo(n - 1) : Len(x) = n - 1},
                                     u \in Users}

\* A receiver is a str or a non-string iterable of str
SomeReceivers == {[str |-> "a"], [list |-> <<"a", "b">>]}

Receivers == {[str |-> v] : v \in {"", "a", "a|b"}} \cup
             {[list |-> l] : l \in ListsUpTo(MaxReceivers)}

Mentions == {<< >>, <<"a">>}

\* What the gettoken endpoint answers: a token, an empty token, or its
\* error reply, which has no access_token field.
TokenReplies == {[errcode |-> 0, access_token |-> "t1"],
                 [errcode |-> 0, access_token |-> "t2"],
                 [errcode |-> 0, access_token |-> ""],
                 [errcode |-> 40013]}

\* What a send endpoint answers: success, an application-level failure,
\* or a JSON object without errcode.
SendReplies == {[errcode |-> 0, errmsg |-> "ok"],
                [errcode |-> 40014, errmsg |-> "invalid access_token"],
                [errmsg |-> "?"]}

\* ------------------------------------------------------------ send()
\* Variant: a failure answer raised instead of returned
send_outcome_raising(res) ==
    IF "errcode" \notin DOMAIN res
    THEN [kind |-> "raise", exc |-> "KeyError", arg |-> "errcode"]
    ELSE IF res["errcode"] # 0
    THEN [kind |-> "raise", exc |-> "RuntimeError", arg |-> "errcode"]
    ELSE [kind |-> "return", value |-> res]

\* Lines 16-23: res["errcode"] raises KeyError when the field is absent;
\* a non-zero errcode is logged at critical level; res is returned.
send_outcome(res) ==
    IF "errcode" \notin DOMAIN res
    THEN [kind |-> "raise", exc |-> "KeyError", arg |-> "errcode"]
    ELSE [kind |-> "return", value |-> res]

send_log(request, res) ==
    IF "errcode" \in DOMAIN res /\ res["errcode"] # 0
    THEN <<[level |-> "CRITICAL", kwargs |-> request, response |-> res]>>
    ELSE << >>

\* ------------------------------------------------------------ WechatGroupRobot
WebhookUrl(key) == "https://qyapi.weixin.qq.com/cgi-bin/webhook/send?key=" \o key

send_msg_data(message, mentioned_list, mentioned_mobile_list) ==
    [msgtype |-> "text",
     text |-> [content |-> message,
               mentioned_list |-> mentioned_list,
               mentioned_mobile_list |-> mentioned_mobile_list]]

\* Variant: the markdown body built as a text body
send_md_data_as_text(message, mentioned_list, mentioned_mobile_list) ==
    [msgtype |-> "text",
     text |-> [content |-> message,
               mentioned_list |-> mentioned_list,
               mentioned_mobile_list |-> mentioned_mobile_list]]

send_md_data(message, mentioned_list, mentioned_mobile_list) ==
    [msgtype |-> "markdown",
     markdown |-> [content |-> message,
                   mentioned_list |-> mentioned_list,
                   mentioned_mobile_list |-> mentioned_mobile_list]]

GroupRequest(key, data) ==
    [url |-> WebhookUrl(key), headers |-> [ContentType |-> "text/plain"], json |-> data]

\* ------------------------------------------------------------ WechatRobot
\* Variant: the loop keeps going and reports the last missing key
MissingKey_last(config) ==
    IF \E k \in 1..Len(RequiredKeys) : RequiredKeys[k] \notin DOMAIN config
    THEN RequiredKeys[CHOOSE k \in 1..Len(RequiredKeys) :
                        /\ RequiredKeys[k] \notin DOMAIN config
                        /\ \A j \in (k + 1)..Len(RequiredKeys) : RequiredKeys[j] \in DOMAIN config]
    ELSE None

\* Lines 115-117: the first required key the dict lacks, or None
MissingKey(config) ==
    IF \E k \in 1..Len(RequiredKeys) : RequiredKeys[k] \notin DOMAIN config
    THEN RequiredKeys[CHOOSE k \in 1..Len(RequiredKeys) :
                        /\ RequiredKeys[k] \notin DOMAIN config
                        /\ \A j \in 1..(k - 1) : RequiredKeys[j] \in DOMAIN config]
    ELSE None

\* Variant: the assert without its "and self._config["token"]"
token_assert_time_only(config, t) ==
    IF "token_time" \notin DOMAIN config THEN "KeyError"
    ELSE IF ~float(config["token_time"]).ok THEN "ValueError"
    ELSE IF ~(0 < t - float(config["token_time"]).value
              /\ t - float(config["token_time"]).value < TokenWindow) THEN "AssertionError"
    ELSE IF "token" \notin DOMAIN config THEN "KeyError"
    ELSE "pass"

\* Line 122, evaluated left to right at clock reading t: what the assert
\* statement does.  "pass" when the assertion holds, else the exception.
\* (The interpreter runs with assertions enabled, its default; str() of a
\* float is its shortest repr, so float(str(t)) = t.)
token_assert(config, t) ==
    IF "token_time" \notin DOMAIN config THEN "KeyError"
    ELSE IF ~float(config["token_time"]).ok THEN "ValueError"
    ELSE IF ~(0 < t - float(config["token_time"]).value
              /\ t - float(config["token_time"]).value < TokenWindow) THEN "AssertionError"
    ELSE IF "token" \notin DOMAIN config THEN "KeyError"
    ELSE IF config["token"] = "" THEN "AssertionError"
    ELSE "pass"

\* Variant: no caching, every call refreshes
NeedsRefresh_always(config, t) == TRUE

\* Lines 121-123: "except Exception" turns every failure into a refresh
NeedsRefresh(config, t) == token_assert(config, t) # "pass"

GetTokenRequest(config) ==
    [url |-> "https://qyapi.weixin.qq.com/cgi-bin/gettoken",
     params |-> [corpid |-> config["corp_id"], corpsecret |-> config["secret_id"]]]

\* Variant: the refresh stores the token and forgets the time
StoreToken_without_time(config, data, t) ==
    Put(config, "token", data["access_token"])

\* Lines 131-132: the cache after a refresh that got `data` at clock reading t
StoreToken(config, data, t) ==
    Put(Put(config, "token", data["access_token"]), "token_time", str(t))

RECURSIVE join(_, _)
\* sep.join(list)
join(sep, l) == IF Len(l) = 0 THEN ""
                ELSE IF Len(l) = 1 THEN l[1]
                ELSE l[1] \o sep \o join(sep, Tail(l))

\* Variant: the receivers joined with a comma
NormalizeReceiver_comma(receiver) ==
    IF "str" \notin DOMAIN receiver THEN join(",", receiver.list) ELSE receiver.str

\* Lines 146-147
NormalizeReceiver(receiver) ==
    IF "str" \notin DOMAIN receiver THEN join("|", receiver.list) ELSE receiver.str

\* Lines 148-160: the message POST for an access token
MessageRequest(config, token, message, receiver) ==
    [url |-> "https://qyapi.weixin.qq.com/cgi-bin/message/send?access_token=" \o token,
     data |-> [touser |-> NormalizeReceiver(receiver),
               msgtype |-> "text",
               agentid |-> config["agent_id"],
               text |-> [content |-> message],
               safe |-> "0"]]

NoRefresh == << >>
NoFrame == [op |-> None]
NoResult == [kind |-> None]

\* ------------------------------------------------------------ initial state
Start ==
    /\ now = StartTime
    /\ _config = [i \in Instances |-> None]
    /\ _key = None
    /\ pc = "idle"
    /\ frame = NoFrame
    /\ http = << >>
    /\ log = << >>
    /\ result = NoResult
    /\ seen = NoRefresh
    /\ last = NoRefresh

Init ==
    /\ Start
    /\ cfg \in [Records -> CompleteConfigs]

\* ------------------------------------------------------------ actions
\* time.time() changes: time passes, or the clock is set back.
Tick(t) ==
    /\ t # now
    /\ now' = t
    /\ UNCHANGED <<cfg, _config, _key, pc, frame, http, log, result, seen, last>>

\* WechatGroupRobot.__init__ (lines 29-35)
WechatGroupRobot_init(key) ==
    /\ pc = "idle"
    /\ _key' = key
    /\ UNCHANGED <<now, cfg, _config, pc, frame, http, log, result, seen, last>>

\* WechatGroupRobot.send_msg (lines 53-65) up to the POST
WechatGroupRobot_send_msg(message, ml, mml) ==
    /\ pc = "idle"
    /\ _key # None
    /\ frame' = [op |-> "WechatGroupRobot.send_msg", message |-> message,
                 mentioned_list |-> ml, mentioned_mobile_list |-> mml]
    /\ http' = <<GroupRequest(_key, send_msg_data(message, ml, mml))>>
    /\ log' = << >>
    /\ result' = NoResult
    /\ pc' = "send"
    /\ UNCHANGED <<now, cfg, _config, _key, seen, last>>

\* WechatGroupRobot.send_md (lines 83-95) up to the POST
WechatGroupRobot_send_md(message, ml, mml) ==
    /\ pc = "idle"
    /\ _key # None
    /\ frame' = [op |-> "WechatGroupRobot.send_md", message |-> message,
                 mentioned_list |-> ml, mentioned_mobile_list |-> mml]
    /\ http' = <<GroupRequest(_key, send_md_data(message, ml, mml))>>
    /\ log' = << >>
    /\ result' = NoResult
    /\ pc' = "send"
    /\ UNCHANGED <<now, cfg, _config, _key, seen, last>>

\* WechatRobot.__init__ (lines 114-117): self._config is the caller's dict
\* itself; a missing key raises ValueError and no instance comes to exist.
WechatRobot_init(i, r) ==
    /\ pc = "idle"
    /\ IF MissingKey(cfg[r]) # None
       THEN /\ result' = [kind |-> "raise", exc |-> "ValueError", arg |-> MissingKey(cfg[r])]
            /\ UNCHANGED _config
       ELSE /\ result' = [kind |-> "return", value |-> None]
            /\ _config' = [_config EXCEPT ![i] = r]
    /\ frame' = [op |-> "WechatRobot.__init__", self |-> i, app_config |-> r]
    /\ http' = << >>
    /\ log' = << >>
    /\ pc' = "done"
    /\ UNCHANGED <<now, cfg, _key, seen, last>>

\* WechatRobot.send_msg (lines 146-160) with _get_access_token (lines
\* 121-129), up to the first POST: the token request when the cache fails
\* the check, else the message POST with the cached token.
WechatRobot_send_msg(i, message, receiver) ==
    /\ pc = "idle"
    /\ _config[i] # None
    /\ frame' = [op |-> "WechatRobot.send_msg", self |-> i,
                 message |-> message, receiver |-> receiver]
    /\ log' = << >>
    /\ result' = NoResult
    /\ IF NeedsRefresh(cfg[_config[i]], now)
       THEN /\ http' = <<GetTokenRequest(cfg[_config[i]])>>
            /\ pc' = "gettoken"
       ELSE /\ http' = <<MessageRequest(cfg[_config[i]], cfg[_config[i]]["token"],
                                        message, receiver)>>
            /\ pc' = "send"
    /\ UNCHANGED <<now, cfg, _config, _key, seen, last>>

\* Variant: lines 131 and 132 swapped, the time stored before the answer is read
gettoken_step_time_first(data) ==
    /\ pc = "gettoken"
    /\ IF "access_token" \notin DOMAIN data
       THEN /\ cfg' = [cfg EXCEPT ![_config[frame.self]] = Put(@, "token_time", str(now))]
            /\ result' = [kind |-> "raise", exc |-> "KeyError", arg |-> "access_token"]
            /\ pc' = "done"
            /\ UNCHANGED http
       ELSE /\ cfg' = [cfg EXCEPT ![_config[frame.self]] = StoreToken(@, data, now)]
            /\ http' = Append(http, MessageRequest(cfg'[_config[frame.self]],
                                                   cfg'[_config[frame.self]]["token"],
                                                   frame.message, frame.receiver))
            /\ pc' = "send"
            /\ UNCHANGED result
    /\ UNCHANGED <<now, _config, _key, frame, log>>

\* _get_access_token after the token request answers (lines 130-133), then
\* send_msg (lines 148-160) up to the message POST.  data["access_token"]
\* raises KeyError before anything is stored.
gettoken_step(data) ==
    /\ pc = "gettoken"
    /\ IF "access_token" \notin DOMAIN data
       THEN /\ result' = [kind |-> "raise", exc |-> "KeyError", arg |-> "access_token"]
            /\ pc' = "done"
            /\ UNCHANGED <<cfg, http>>
       ELSE /\ cfg' = [cfg EXCEPT ![_config[frame.self]] = StoreToken(@, data, now)]
            /\ http' = Append(http, MessageRequest(cfg'[_config[frame.self]],
                                                   cfg'[_config[frame.self]]["token"],
                                                   frame.message, frame.receiver))
            /\ pc' = "send"
            /\ UNCHANGED result
    /\ UNCHANGED <<now, _config, _key, frame, log>>

gettoken_reply(data) ==
    /\ gettoken_step(data)
    /\ UNCHANGED <<seen, last>>

\* The same step, recording the history of refreshes: `last` is the latest
\* refresh, `seen` is any one earlier refresh of a non-empty token.
gettoken_reply_history(data) ==
    /\ gettoken_step(data)
    /\ last' = IF "access_token" \in DOMAIN data
               THEN <<frame.self, data["access_token"], now>>
               ELSE last
    /\ seen' \in {seen} \cup
                 (IF "access_token" \in DOMAIN data /\ data["access_token"] # ""
                  THEN {<<frame.self, data["access_token"], now>>}
                  ELSE {})

\* send() after the POST answers (lines 16-23), returning to the caller
send(res) ==
    /\ pc = "send"
    /\ log' = log \o send_log(http[Len(http)], res)
    /\ result' = send_outcome(res)
    /\ pc' = "done"
    /\ UNCHANGED <<now, cfg, _config, _key, frame, http, seen, last>>

\* The caller takes the result; the program is ready for the next call.
Return ==
    /\ pc = "done"
    /\ pc' = "idle"
    /\ frame' = NoFrame
    /\ http' = << >>
    /\ log' = << >>
    /\ result' = NoResult
    /\ UNCHANGED <<now, cfg, _config, _key, seen, last>>

\* Two instances over two dicts, which they may share.
Next ==
    \/ \E t \in ClockValues : Tick(t)
    \/ \E i \in Instances, r \in Records : WechatRobot_init(i, r)
    \/ \E i \in Instances, m \in Messages, rc \in SomeReceivers : WechatRobot_send_msg(i, m, rc)
    \/ \E data \in TokenReplies : gettoken_reply(data)
    \/ \E res \in SendReplies : send(res)
    \/ Return

Spec == Init /\ [][Next]_vars

\* Only the dict "r1" varies; "r2" holds a token cached at the start.
InitSingle ==
    /\ Start
    /\ cfg \in {c \in [Records -> CompleteConfigs] : c["r2"] = FullConfig("t0", str(StartTime))}

\* One instance over one dict, with the history of its refreshes.
NextHistory ==
    \/ \E t \in ClockValues : Tick(t)
    \/ WechatRobot_init("w1", "r1")
    \/ \E m \in Messages, rc \in SomeReceivers : WechatRobot_send_msg("w1", m, rc)
    \/ \E data \in TokenReplies : gettoken_reply_history(data)
    \/ \E res \in SendReplies : send(res)
    \/ Return

SpecHistory == InitSingle /\ [][NextHistory]_vars

\* Both clients, one instance each, over every payload.
NextPayload ==
    \/ \E t \in ClockValues : Tick(t)
    \/ \E k \in Keys : WechatGroupRobot_init(k)
    \/ \E m \in Messages, ml \in Mentions, mml \in Mentions : WechatGroupRobot_send_msg(m, ml, mml)
    \/ \E m \in Messages, ml \in Mentions, mml \in Mentions : WechatGroupRobot_send_md(m, ml, mml)
    \/ WechatRobot_init("w1", "r1")
    \/ \E m \in Messages, rc \in Receivers : WechatRobot_send_msg("w1", m, rc)
    \/ \E data \in TokenReplies : gettoken_reply(data)
    \/ \E res \in SendReplies : send(res)
    \/ Return

SpecPayload == InitSingle /\ [][NextPayload]_vars

\* The constructor over every dict.
InitConstruct ==
    /\ Start
    /\ cfg \in [Records -> AnyConfigs]

NextConstruct ==
    \/ \E i \in Instances, r \in Records : WechatRobot_init(i, r)
    \/ Return

SpecConstruct == InitConstruct /\ [][NextConstruct]_vars

\* ------------------------------------------------------------ properties
Config(i) == cfg[_config[i]]
ConfigAfter(i) == cfg'[_config'[i]]

GetTokenUrl == "https://qyapi.weixin.qq.com/cgi-bin/gettoken"
MessageUrl(token) == "https://qyapi.weixin.qq.com/cgi-bin/message/send?access_token=" \o token

TokenRequests(h) == {k \in 1..Len(h) : h[k].url = GetTokenUrl}
MessagePosts(h) == {k \in 1..Len(h) : h[k].url # GetTokenUrl}

\* The validity of a cache at clock reading t, as the specification words it
Valid(config, t) ==
    /\ "token_time" \in DOMAIN config
    /\ float(config["token_time"]).ok
    /\ t - float(config["token_time"]).value > 0
    /\ t - float(config["token_time"]).value < 7260
    /\ "token" \in DOMAIN config
    /\ config["token"] # ""

\* The provider's token lifetime: 2 hours
ProviderLifetime == 2 * 60 * 60

\* The step in which a send_msg call starts and runs to its first POST
StartsSendMsg ==
    /\ pc = "idle"
    /\ pc' \in {"gettoken", "send"}
    /\ frame'.op = "WechatRobot.send_msg"

\* The step in which a send_msg call issues its message POST
PostsMessage ==
    /\ pc \in {"idle", "gettoken"}
    /\ pc' = "send"
    /\ frame'.op = "WechatRobot.send_msg"

\* C1: a send_msg call issues a token request if and only if the cache is
\* not VALID at the clock reading of the check: a timestamp that is a
\* number, 0 < now - token_time < 7260, and a non-empty token.
C1_RefreshIffNotValid ==
    [][StartsSendMsg =>
        /\ (pc' = "gettoken") <=> ~Valid(Config(frame'.self), now)
        /\ (pc' = "gettoken") => http' = <<GetTokenRequest(Config(frame'.self))>>
        /\ (pc' = "send") => TokenRequests(http') = {}]_vars

\* C1 witness: a refresh was triggered for a non-empty token at elapsed time 0
C1_Witness ==
    /\ pc = "gettoken"
    /\ "token" \in DOMAIN Config(frame.self)
    /\ Config(frame.self)["token"] # ""
    /\ "token_time" \in DOMAIN Config(frame.self)
    /\ float(Config(frame.self)["token_time"]).ok
    /\ float(Config(frame.self)["token_time"]).value = now

\* C2 as stated: when the message POST is issued the cached token is VALID
\* and the POST URL carries it.
C2_PostCarriesValidToken ==
    [][PostsMessage =>
        /\ Valid(ConfigAfter(frame'.self), now)
        /\ http'[Len(http')].url = MessageUrl(ConfigAfter(frame'.self)["token"])]_vars

\* C2 amended: when the message POST is issued its URL carries the cached
\* token; without a refresh in this call the cache is VALID, and after a
\* refresh the cached timestamp is the clock reading of the refresh, so the
\* elapsed time is 0, and the token is whatever the provider answered.
C2_PostCarriesCachedToken ==
    [][PostsMessage =>
        /\ "token" \in DOMAIN ConfigAfter(frame'.self)
        /\ http'[Len(http')].url = MessageUrl(ConfigAfter(frame'.self)["token"])
        /\ (pc = "idle") => Valid(ConfigAfter(frame'.self), now)
        /\ (pc = "gettoken") =>
              /\ "token_time" \in DOMAIN ConfigAfter(frame'.self)
              /\ float(ConfigAfter(frame'.self)["token_time"]) = [ok |-> TRUE, value |-> now]]_vars

\* C2 witness: a message POST issued right after a refresh that stored an
\* empty token, at elapsed time 0
C2_Witness ==
    /\ pc = "send"
    /\ frame.op = "WechatRobot.send_msg"
    /\ Len(http) = 2
    /\ Config(frame.self)["token"] = ""
    /\ float(Config(frame.self)["token_time"]).value = now

\* C3: while a call on one instance runs, the cache another instance uses
\* does not change.
C3_NoSharedState ==
    [][\A i \in Instances, j \in Instances :
        (/\ i # j
         /\ _config[j] # None
         /\ pc = "gettoken"
         /\ frame.self = i) => ConfigAfter(j) = Config(j)]_vars

\* C8: a message POST never carries a token whose cached acquisition time
\* lies more than the provider's lifetime back.
C8_PostWithinLifetime ==
    [][PostsMessage =>
        now - float(ConfigAfter(frame'.self)["token_time"]).value <= ProviderLifetime]_vars

\* C4: when a send endpoint answers with errcode # 0, send() logs one
\* critical record, raises nothing and returns the answer unchanged; with
\* errcode = 0 it returns the answer and logs nothing.
C4_SendLogsAndReturns ==
    [][\A res \in SendReplies :
        (pc = "send" /\ send(res) /\ "errcode" \in DOMAIN res) =>
            /\ result' = [kind |-> "return", value |-> res]
            /\ IF res["errcode"] # 0
               THEN /\ Len(log') = Len(log) + 1
                    /\ log'[Len(log')].level = "CRITICAL"
                    /\ log'[Len(log')].response = res
               ELSE log' = log]_vars

\* C4 witness: a send of each client returned a failure answer and logged it
C4_Witness ==
    /\ pc = "done"
    /\ frame.op \in {"WechatGroupRobot.send_msg", "WechatGroupRobot.send_md",
                     "WechatRobot.send_msg"}
    /\ result.kind = "return"
    /\ result.value["errcode"] # 0
    /\ Len(log) = 1
    /\ log[1].response = result.value

\* The first required field a dict lacks, in the order of the claim
FirstMissing(config) ==
    IF "corp_id" \notin DOMAIN config THEN "corp_id"
    ELSE IF "secret_id" \notin DOMAIN config THEN "secret_id"
    ELSE IF "agent_id" \notin DOMAIN config THEN "agent_id"
    ELSE None

\* C5: constructing a WechatRobot from a dict lacking corp_id, secret_id or
\* agent_id raises ValueError naming the first missing field; a dict with
\* all three constructs, with or without token and token_time.
C5_ConstructorChecksFields ==
    (pc = "done" /\ frame.op = "WechatRobot.__init__") =>
        IF FirstMissing(cfg[frame.app_config]) # None
        THEN result = [kind |-> "raise", exc |-> "ValueError",
                       arg |-> FirstMissing(cfg[frame.app_config])]
        ELSE /\ result = [kind |-> "return", value |-> None]
             /\ _config[frame.self] = frame.app_config

\* C5 witness: a dict lacking secret_id and agent_id, with a cached token,
\* was refused for secret_id
C5_Witness ==
    /\ pc = "done"
    /\ frame.op = "WechatRobot.__init__"
    /\ DOMAIN cfg[frame.app_config] = {"corp_id", "token", "token_time"}
    /\ result.kind = "raise"
    /\ result.arg = "secret_id"

RECURSIVE BarJoined(_)
\* The elements of a list in order, with "|" between neighbours
BarJoined(l) == IF Len(l) = 0 THEN ""
                ELSE IF Len(l) = 1 THEN l[1]
                ELSE BarJoined(SubSeq(l, 1, Len(l) - 1)) \o "|" \o l[Len(l)]

\* C6: the touser of the message POST is the receiver itself when it is a
\* string, and its elements joined with "|" when it is a list.
C6_ReceiverNormalized ==
    (frame.op = "WechatRobot.send_msg" /\ MessagePosts(http) # {}) =>
        \A k \in MessagePosts(http) :
            http[k].data.touser =
                IF "str" \in DOMAIN frame.receiver
                THEN frame.receiver.str
                ELSE BarJoined(frame.receiver.list)

\* C6 witness: the list ["a", "b"] was posted as "a|b"
C6_Witness ==
    /\ pc = "send"
    /\ frame.op = "WechatRobot.send_msg"
    /\ frame.receiver = [list |-> <<"a", "b">>]
    /\ http[Len(http)].data.touser = "a|b"

\* C7: WechatGroupRobot posts to the webhook URL of its key a body tagged
\* by format: send_msg "text" under key text, send_md "markdown" under key
\* markdown, the object holding the message and the two mention lists.
C7_GroupBodyTagged ==
    (frame.op \in {"WechatGroupRobot.send_msg", "WechatGroupRobot.send_md"}) =>
        LET tag == IF frame.op = "WechatGroupRobot.send_msg" THEN "text" ELSE "markdown"
            req == http[1]
        IN  /\ Len(http) = 1
            /\ req.url = "https://qyapi.weixin.qq.com/cgi-bin/webhook/send?key=" \o _key
            /\ DOMAIN req.json = {"msgtype", tag}
            /\ req.json["msgtype"] = tag
            /\ req.json[tag].content = frame.message
            /\ req.json[tag].mentioned_list = frame.mentioned_list
            /\ req.json[tag].mentioned_mobile_list = frame.mentioned_mobile_list

\* C7 witness: a markdown message with a mention was posted for key k2
C7_Witness ==
    /\ pc = "send"
    /\ frame.op = "WechatGroupRobot.send_md"
    /\ _key = "k2"
    /\ http[1].json["msgtype"] = "markdown"
    /\ http[1].json["markdown"].mentioned_list = <<"a">>
    /\ http[1].json["markdown"].mentioned_mobile_list = << >>

\* The requests of one send_msg call: at most one token request, which
\* comes first, and at most one message POST
OneRefreshThenPost(h) ==
    /\ Len(h) <= 2
    /\ TokenRequests(h) \subseteq {1}
    /\ Cardinality(MessagePosts(h)) <= 1
    /\ Len(h) = 2 => TokenRequests(h) = {1}

\* A refresh stores the answered access_token and the clock reading
RefreshStores ==
    \A data \in TokenReplies :
        (pc = "gettoken" /\ pc' = "send" /\ gettoken_step(data)) =>
            /\ ConfigAfter(frame.self)["token"] = data["access_token"]
            /\ float(ConfigAfter(frame.self)["token_time"]) = [ok |-> TRUE, value |-> now]

\* C9 as stated: once a call refreshed a non-empty token, every later call
\* on the instance made more than 0 and less than 7260 seconds after that
\* refresh issues no token request and posts with that token.
C9_AnyEarlierRefreshReused ==
    [][/\ RefreshStores
       /\ OneRefreshThenPost(http')
       /\ (/\ StartsSendMsg
           /\ seen # NoRefresh
           /\ seen[1] = frame'.self
           /\ now - seen[3] > 0
           /\ now - seen[3] < 7260) =>
               /\ pc' = "send"
               /\ TokenRequests(http') = {}
               /\ http'[1].url = MessageUrl(seen[2])]_vars

\* C9 amended: the same, for the latest refresh of the instance's dict (no
\* other refresh since).
C9_LatestRefreshReused ==
    [][/\ RefreshStores
       /\ OneRefreshThenPost(http')
       /\ (/\ StartsSendMsg
           /\ seen # NoRefresh
           /\ seen = last
           /\ seen[1] = frame'.self
           /\ now - seen[3] > 0
           /\ now - seen[3] < 7260) =>
               /\ pc' = "send"
               /\ TokenRequests(http') = {}
               /\ http'[1].url = MessageUrl(seen[2])]_vars

\* C9 witness: a call at the last second of the window posted with the
\* token of the latest refresh, without a token request
C9_Witness ==
    /\ pc = "send"
    /\ seen # NoRefresh
    /\ seen = last
    /\ now - seen[3] = TokenWindow - 1
    /\ Len(http) = 1
    /\ http[1].url = MessageUrl(seen[2])

\* C10: a token answer without access_token makes send_msg raise, with no
\* message POST and the cache as it was; the answer to the message POST,
\* whatever its errcode, leaves the cache as it was.
C10_FailuresKeepCache ==
    [][/\ \A data \in TokenReplies :
            (pc = "gettoken" /\ gettoken_step(data) /\ "access_token" \notin DOMAIN data) =>
                /\ pc' = "done"
                /\ result'.kind = "raise"
                /\ MessagePosts(http') = {}
                /\ cfg' = cfg
       /\ (pc = "send" /\ pc' = "done") => cfg' = cfg]_vars

\* C10 witness: a refresh failed and the expired token is still cached
C10_Witness ==
    /\ pc = "done"
    /\ frame.op = "WechatRobot.send_msg"
    /\ result = [kind |-> "raise", exc |-> "KeyError", arg |-> "access_token"]
    /\ Len(http) = 1
    /\ "token" \in DOMAIN Config(frame.self)
    /\ Config(frame.self)["token"] = "t0"

====
